---- MODULE Spec2Model ----
(***************************************************************************)
(* A model of neural_sp's length-aware subsampling layers                  *)
(* (neural_sp/models/seq2seq/encoders/subsampling.py) and of the training  *)
(* loop of neural_sp/bin/asr/train_main.py.                                *)
(*                                                                         *)
(* Tensors are modelled by the provenance of their frames: the batch xs is *)
(* a sequence (one entry per sample) of sequences of frames (one entry per *)
(* time step); every frame is a record: a valid input frame at time t, a   *)
(* padding frame, or a frame computed by a layer, which names the layer    *)
(* and the frames it was computed from.                                    *)
(***************************************************************************)
EXTENDS Integers, Sequences, FiniteSets, TLC

(***************************************************************************)
(* Bounds of the model.                                                    *)
(***************************************************************************)
MaxT == 7
MaxB == 2
MaxFactor == 3
MaxKernel == 3
MaxGpus == 2
MaxPrintStep == 4
MaxEpochs == 3
MaxBatches == 2
MaxMetric == 2
MaxPatience == 2
MaxDecayPatience == 2
MaxReportStep == 6

VARIABLES
    sub_pc,     \* position of the subsampler scenario: "new", "built", "done"
    sub_args,   \* constructor arguments: [type, subsampling_factor, conv_kernel_size]
    module,     \* the constructed nn.Module (its attributes), or NoModule
    xs,         \* the padded input batch [B, T]
    xlens,      \* the input length vector [B]
    ret,        \* what forward returned (or raised)
    pc,                 \* position of train(): "start", "loop", "epoch", "finish", "done", "raised"
    args,               \* the configuration (args.print_step is adjusted by train)
    train_set,          \* the training Dataset iterator: [epoch, pos, len]
    eval_sets,          \* number of auxiliary Dataset objects built
    epoch,              \* train's epoch counter (1-based)
    step,               \* train's step counter
    learning_rate,      \* the learning rate tracked by the loop
    metric_dev_best,    \* best dev metric so far
    metric_dev,         \* the dev metric of the last evaluation (NoMetric before)
    not_improved_epoch, \* consecutive non-improving evaluated epochs
    optimizer,          \* model.module.optimizer: [name, lr]
    lr_controller,      \* the Controller's state
    is_new_epoch,       \* the flag returned by the last train_set.next()
    n_accum,            \* training updates summed in loss_train_mean / acc_train_mean
    checkpoints,        \* the checkpoints written, in order
    resources,          \* tf_writer and the progress bars: open or closed
    raised,             \* the exception train() ended with, or "none"
    stopped_by,         \* the break statement that left the loop, or "none"
    hist                \* counts of the calls made to the collaborators

subVars == <<sub_pc, sub_args, module, xs, xlens, ret>>

trainVars == <<pc, args, train_set, eval_sets, epoch, step, learning_rate,
               metric_dev_best, metric_dev, not_improved_epoch, optimizer,
               lr_controller, is_new_epoch, n_accum, checkpoints, resources,
               raised, stopped_by, hist>>

vars == <<sub_pc, sub_args, module, xs, xlens, ret,
          pc, args, train_set, eval_sets, epoch, step, learning_rate,
          metric_dev_best, metric_dev, not_improved_epoch, optimizer,
          lr_controller, is_new_epoch, n_accum, checkpoints, resources,
          raised, stopped_by, hist>>

(***************************************************************************)
(* Arithmetic of the Python operators used on lengths.                     *)
(***************************************************************************)
Max(a, b) == IF a >= b THEN a ELSE b

\* Python's a // b on integers (b > 0): floor division.
FloorDiv(a, b) == a \div b

\* math.ceil(a / b) for integers a and b > 0 (true division, then ceiling).
CeilDiv(a, b) == IF a % b = 0 THEN a \div b ELSE (a \div b) + 1

\* range(lo, hi) as a sequence lo, lo+1, ..., hi-1.
Range(lo, hi) == [k \in 1..Max(0, hi - lo) |-> lo + k - 1]

\* The frames xs[i][a:b] of one sample (0-based, half-open, clipped like a slice).
Slice(x, a, b) == [k \in 1..Max(0, (IF b < Len(x) THEN b ELSE Len(x)) - a) |-> x[a + k]]

\* xs.size(1) of a batch [B, T].
TimeDim(b) == Len(b[1])

NoModule == [type |-> "none"]
NoReturn == [raised |-> "none", xs |-> <<>>, xlens |-> <<>>]
Returned(oxs, oxlens) == [raised |-> "no", xs |-> oxs, xlens |-> oxlens]
Raised(e) == [raised |-> e, xs |-> <<>>, xlens |-> <<>>]

(***************************************************************************)
(* torch.nn.MaxPool1d as constructed by Conv1dSubsampler and               *)
(* MaxpoolSubsampler: kernel = stride = factor, no padding, ceiling mode.  *)
(***************************************************************************)
\* Mutant: the pooling layer built without ceiling mode.
MaxPool1d_floor_mode(subsampling_factor) ==
    [kernel_size |-> subsampling_factor,
     stride      |-> subsampling_factor,
     padding     |-> 0,
     ceil_mode   |-> FALSE]

MaxPool1d(subsampling_factor) ==
    [kernel_size |-> subsampling_factor,
     stride      |-> subsampling_factor,
     padding     |-> 0,
     ceil_mode   |-> TRUE]

\* Number of output time steps of a pooling layer on t input steps: in ceiling
\* mode a final partial window is pooled, provided it starts inside the input.
PoolOutLen(t, pool) ==
    LET num == t + 2 * pool.padding - pool.kernel_size
        raw == IF pool.ceil_mode
                 THEN CeilDiv(num, pool.stride) + 1
                 ELSE FloorDiv(num, pool.stride) + 1
    IN  IF pool.ceil_mode /\ (raw - 1) * pool.stride >= t + pool.padding
          THEN raw - 1
          ELSE raw

\* self.pool(xs): output step j pools the input steps of window j.
PoolApply(x, pool) ==
    [j \in 1..PoolOutLen(Len(x), pool) |->
        [op |-> "max",
         in |-> Slice(x, (j - 1) * pool.stride, (j - 1) * pool.stride + pool.kernel_size)]]

\* update_lens_1d(xlens, pool): each length becomes the pooled length.
update_lens_1d(lens, pool) == [i \in DOMAIN lens |-> PoolOutLen(lens[i], pool)]

(***************************************************************************)
(* Frames.                                                                 *)
(***************************************************************************)
InputFrame(t) == [op |-> "input", t |-> t]
PadFrame == [op |-> "pad", t |-> 0]

\* A padded batch [B, T] whose sample i holds lens[i] valid frames.
PaddedBatch(lens, T) ==
    [i \in DOMAIN lens |-> [t \in 1..T |-> IF t <= lens[i] THEN InputFrame(t) ELSE PadFrame]]

(***************************************************************************)
(* torch.nn.Conv1d as constructed by Conv1dSubsampler: stride 1 and        *)
(* padding (k - 1) // 2 on both sides ('same' for an odd kernel).          *)
(***************************************************************************)
NoLayer == [kernel_size |-> 0, stride |-> 0, padding |-> 0, ceil_mode |-> FALSE]

Conv1d(conv_kernel_size) ==
    [kernel_size |-> conv_kernel_size,
     stride      |-> 1,
     padding     |-> FloorDiv(conv_kernel_size - 1, 2),
     ceil_mode   |-> FALSE]

\* torch.relu(self.conv1d(xs)): output step t sees the zero-padded window
\* around input step t.
ConvApply(x, conv) ==
    LET n == FloorDiv(Len(x) + 2 * conv.padding - conv.kernel_size, conv.stride) + 1
    IN  [t \in 1..Max(0, n) |->
            [op |-> "relu_conv",
             in |-> [k \in 1..conv.kernel_size |->
                        LET pos == (t - 1) * conv.stride - conv.padding + k
                        IN  IF pos >= 1 /\ pos <= Len(x) THEN x[pos] ELSE PadFrame]]]

(***************************************************************************)
(* ConcatSubsampler                                                        *)
(***************************************************************************)
ConcatSubsampler_init(subsampling_factor) ==
    [type |-> "concat", subsampling_factor |-> subsampling_factor,
     conv1d |-> NoLayer, pool |-> NoLayer]

\* Mutant: the length rounded up instead of down.
ConcatLen_round_up(L, f) == Max(1, CeilDiv(L, f))

\* Mutant: the length not clamped to 1.
ConcatLen_no_clamp(L, f) == FloorDiv(L, f)

\* max(1, i.item() // self.subsampling_factor)
ConcatLen(L, f) == Max(1, FloorDiv(L, f))

\* The frames of one sample after concatenation and projection: one output
\* step per t in range(T) with (t + 1) % f == 0, made of the frames
\* t-f+1 .. t (0-based), so that a trailing incomplete group is excluded.
ConcatFrames(x, f) ==
    LET ends == SelectSeq(Range(0, Len(x)), LAMBDA t : (t + 1) % f = 0)
    IN  [j \in 1..Len(ends) |->
            [op |-> "relu_proj", in |-> Slice(x, ends[j] - (f - 1), ends[j] + 1)]]

\* Mutant: forward without the early return for factor 1.
ConcatSubsampler_forward_no_identity(self, bxs, bxlens) ==
    IF Len(ConcatFrames(bxs[1], self.subsampling_factor)) = 0
      THEN Raised("RuntimeError")
      ELSE Returned(
             [i \in DOMAIN bxs |-> ConcatFrames(bxs[i], self.subsampling_factor)],
             [i \in DOMAIN bxlens |-> ConcatLen(bxlens[i], self.subsampling_factor)])

ConcatSubsampler_forward(self, bxs, bxlens) ==
    IF self.subsampling_factor = 1
      THEN Returned(bxs, bxlens)
      ELSE IF Len(ConcatFrames(bxs[1], self.subsampling_factor)) = 0
             \* torch.cat of an empty list of tensors raises
             THEN Raised("RuntimeError")
             ELSE Returned(
                    [i \in DOMAIN bxs |-> ConcatFrames(bxs[i], self.subsampling_factor)],
                    [i \in DOMAIN bxlens |-> ConcatLen(bxlens[i], self.subsampling_factor)])

(***************************************************************************)
(* Conv1dSubsampler                                                        *)
(***************************************************************************)
\* The assertion of __init__: the kernel size is odd.
\* Mutant: the kernel size is not tested.
Conv1dKernelOk_any(conv_kernel_size) == TRUE

Conv1dKernelOk(conv_kernel_size) == conv_kernel_size % 2 = 1

Conv1dSubsampler_init(subsampling_factor, conv_kernel_size) ==
    [type |-> "conv1d", subsampling_factor |-> subsampling_factor,
     conv1d |-> IF subsampling_factor > 1 THEN Conv1d(conv_kernel_size) ELSE NoLayer,
     pool   |-> IF subsampling_factor > 1 THEN MaxPool1d(subsampling_factor) ELSE NoLayer]

Conv1dSubsampler_forward(self, bxs, bxlens) ==
    IF self.subsampling_factor = 1
      THEN Returned(bxs, bxlens)
      ELSE Returned(
             [i \in DOMAIN bxs |-> PoolApply(ConvApply(bxs[i], self.conv1d), self.pool)],
             update_lens_1d(bxlens, self.pool))

(***************************************************************************)
(* DropSubsampler                                                          *)
(***************************************************************************)
DropSubsampler_init(subsampling_factor) ==
    [type |-> "drop", subsampling_factor |-> subsampling_factor,
     conv1d |-> NoLayer, pool |-> NoLayer]

\* Mutant: the length rounded down instead of up.
DropLen_round_down(L, f) == Max(1, FloorDiv(L, f))

\* max(1, math.ceil(i.item() / self.subsampling_factor))
DropLen(L, f) == Max(1, CeilDiv(L, f))

\* Mutant: the last step of every group kept (xs[:, f-1::f, :]).
DropFrames_last_of_group(x, f) == [j \in 1..FloorDiv(Len(x), f) |-> x[j * f]]

\* xs[:, ::f, :] keeps the steps 0, f, 2f, ... (0-based).
DropFrames(x, f) == [j \in 1..CeilDiv(Len(x), f) |-> x[(j - 1) * f + 1]]

\* Mutant: every length is computed from the padded time dimension.
DropSubsampler_forward_padded(self, bxs, bxlens) ==
    IF self.subsampling_factor = 1
      THEN Returned(bxs, bxlens)
      ELSE Returned(
             [i \in DOMAIN bxs |-> DropFrames(bxs[i], self.subsampling_factor)],
             [i \in DOMAIN bxlens |-> DropLen(TimeDim(bxs), self.subsampling_factor)])

DropSubsampler_forward(self, bxs, bxlens) ==
    IF self.subsampling_factor = 1
      THEN Returned(bxs, bxlens)
      ELSE Returned(
             [i \in DOMAIN bxs |-> DropFrames(bxs[i], self.subsampling_factor)],
             [i \in DOMAIN bxlens |-> DropLen(bxlens[i], self.subsampling_factor)])

(***************************************************************************)
(* MaxpoolSubsampler                                                       *)
(***************************************************************************)
MaxpoolSubsampler_init(subsampling_factor) ==
    [type |-> "maxpool", subsampling_factor |-> subsampling_factor,
     conv1d |-> NoLayer,
     pool   |-> IF subsampling_factor > 1 THEN MaxPool1d(subsampling_factor) ELSE NoLayer]

MaxpoolSubsampler_forward(self, bxs, bxlens) ==
    IF self.subsampling_factor = 1
      THEN Returned(bxs, bxlens)
      ELSE Returned(
             [i \in DOMAIN bxs |-> PoolApply(bxs[i], self.pool)],
             update_lens_1d(bxlens, self.pool))


(***************************************************************************)
(* train(args): configuration and collaborators.                           *)
(***************************************************************************)
NoMetric == -1
NoArgs == [ngpus |-> 0]
NoDataset == [epoch |-> 0, pos |-> 0, len |-> 0]
NoOptimizer == [name |-> "none", lr |-> 0]
NoController == [best_value |-> 0, last_decay_epoch |-> 0]
NoResources == [tf_writer |-> "none", pbar_epoch |-> "none", pbar_all |-> "none"]
NoHist == [train_updates |-> 0, eval_updates |-> 0, dev_batches |-> 0, reports |-> 0,
           since_report |-> 0, dev_evals |-> 0, aux_evals |-> 0, sgd_switches |-> 0,
           print_step |-> 0]

\* The train variables while only a subsampler is exercised.
TrainIdle ==
    /\ pc = "idle"
    /\ args = NoArgs
    /\ train_set = NoDataset
    /\ eval_sets = 0
    /\ epoch = 0
    /\ step = 0
    /\ learning_rate = 0
    /\ metric_dev_best = 0
    /\ metric_dev = NoMetric
    /\ not_improved_epoch = 0
    /\ optimizer = NoOptimizer
    /\ lr_controller = NoController
    /\ is_new_epoch = FALSE
    /\ n_accum = 0
    /\ checkpoints = <<>>
    /\ resources = NoResources
    /\ raised = "none"
    /\ stopped_by = "none"
    /\ hist = NoHist

\* The subsampler variables while train() is exercised.
SubIdle ==
    /\ sub_pc = "idle"
    /\ sub_args = [type |-> "none", subsampling_factor |-> 0, conv_kernel_size |-> 0]
    /\ module = NoModule
    /\ xs = <<>>
    /\ xlens = <<>>
    /\ ret = NoReturn

\* The label types the evaluator dispatch of train distinguishes, and one it
\* does not recognise.
LabelTypes == {"word", "wordpiece", "char", "phone", "bpe"}

\* The dev evaluator selected by args.label_type, or the ValueError raised.
DevEvaluator(label_type) ==
    IF label_type = "word" THEN "eval_word"
    ELSE IF label_type = "wordpiece" THEN "eval_wordpiece"
    ELSE IF label_type \in {"char"} THEN "eval_char"
    ELSE IF label_type \in {"phone"} THEN "eval_phone"
    ELSE "ValueError"

\* The possible outcomes of decoding and logging one auxiliary evaluation
\* set.  The wordpiece call omits the word-piece model argument that the dev
\* call passes, so it succeeds or raises according to the evaluator's
\* signature; the character log line formats three fields from two values,
\* which raises.
AuxEvaluation(label_type) ==
    IF label_type = "word" THEN {"ok"}
    ELSE IF label_type = "wordpiece" THEN {"ok", "TypeError"}
    ELSE IF label_type \in {"char"} THEN {"TypeError"}
    ELSE IF label_type \in {"phone"} THEN {"ok"}
    ELSE {"ValueError"}

\* Lines 389-403: the possible outcomes of the loop over eval_sets, which
\* runs only after an improvement.
AuxOutcomes(m) ==
    IF m < metric_dev_best /\ eval_sets > 0 THEN AuxEvaluation(args.label_type) ELSE {"ok"}

\* The learning rate is counted in units of args.learning_rate / LrUnit, so
\* that multiplying by the decay rate stays exact.
LrUnit == 2 ^ (MaxEpochs + 1)
Metrics == 1..MaxMetric

\* learning_rate * self.decay_rate
Decayed(lr, rate) == (lr * rate.num) \div rate.den

\* Dataset.next(): the next batch and whether it completes a pass.
DatasetNext(ds) ==
    IF ds.pos + 1 = ds.len
      THEN [ds |-> [ds EXCEPT !.epoch = ds.epoch + 1, !.pos = 0], is_new_epoch |-> TRUE]
      ELSE [ds |-> [ds EXCEPT !.pos = ds.pos + 1], is_new_epoch |-> FALSE]

\* Controller.decay_lr(optimizer, learning_rate, epoch, value): returns the
\* optimizer with the new rate applied, the new rate and the controller.
decay_lr(ctrl, opt, lr, ep, value, a) ==
    LET better == value < ctrl.best_value
        due    == /\ ep >= a.decay_start_epoch
                  /\ (ctrl.last_decay_epoch = 0
                        \/ ep - ctrl.last_decay_epoch >= a.decay_patient_epoch)
        decay  == IF a.decay_type = "fixed" THEN due ELSE (~better /\ due)
        new_lr == IF decay THEN Decayed(lr, a.decay_rate) ELSE lr
    IN  [optimizer |-> IF decay THEN [opt EXCEPT !.lr = new_lr] ELSE opt,
         learning_rate |-> new_lr,
         ctrl |-> [best_value |-> IF better THEN value ELSE ctrl.best_value,
                   last_decay_epoch |-> IF decay THEN ep ELSE ctrl.last_decay_epoch]]

\* Mutant: nothing is written.
save_checkpoint_nothing(cps, ep, st, lr, best) == cps

\* model.module.save_checkpoint(save_path, epoch, step, learning_rate, metric_dev_best)
save_checkpoint(cps, ep, st, lr, best) ==
    Append(cps, [epoch |-> ep, step |-> st, learning_rate |-> lr, metric_dev_best |-> best])

(***************************************************************************)
(* train(args), lines 54-303: set-up.                                      *)
(***************************************************************************)
\* Lines 55-57: the multi-GPU adjustment of args.print_step.
AdjustedPrintStep(a) ==
    IF a.ngpus > 1 THEN FloorDiv(a.print_step, a.ngpus) ELSE a.print_step

\* Lines 104-115: the auxiliary sets built (phone labels only for timit).
BuiltEvalSets(a) ==
    IF a.label_type \in {"phone"} /\ a.corpus # "timit" THEN 0 ELSE a.eval_sets

TrainSetup ==
    /\ pc = "start"
    /\ args' = [args EXCEPT !.print_step = AdjustedPrintStep(args)]
    /\ eval_sets' = BuiltEvalSets(args)
    /\ optimizer' = [name |-> args.optimizer, lr |-> args.learning_rate]
    /\ epoch' = 1
    /\ step' = 0
    /\ learning_rate' = args.learning_rate
    /\ metric_dev_best' = 100
    /\ train_set' = [train_set EXCEPT !.epoch = 1 - 1]
    /\ lr_controller' = [best_value |-> 100, last_decay_epoch |-> 0]
    /\ resources' = [tf_writer |-> "open", pbar_epoch |-> "open", pbar_all |-> "open"]
    /\ not_improved_epoch' = 0
    /\ n_accum' = 0
    /\ hist' = [hist EXCEPT !.print_step = args.print_step]
    /\ pc' = "loop"
    /\ UNCHANGED <<metric_dev, is_new_epoch, checkpoints, raised, stopped_by>>
    /\ UNCHANGED subVars

(***************************************************************************)
(* The loop body, lines 306-339: one training update, the periodic report  *)
(* and the step counter.                                                   *)
(***************************************************************************)
\* Line 339: step += args.ngpus
StepIncrement(a) == a.ngpus

TrainStep ==
    /\ pc = "loop"
    /\ LET nxt == DatasetNext(train_set)
       IN  /\ train_set' = nxt.ds
           /\ is_new_epoch' = nxt.is_new_epoch
           /\ IF args.print_step = 0
                THEN \* (step + 1) % args.print_step raises
                     /\ raised' = "ZeroDivisionError"
                     /\ pc' = "raised"
                     /\ n_accum' = n_accum + 1
                     /\ hist' = [hist EXCEPT !.train_updates = @ + 1,
                                             !.since_report = @ + 1]
                     /\ UNCHANGED step
                ELSE /\ raised' = raised
                     /\ pc' = IF nxt.is_new_epoch THEN "epoch" ELSE "loop"
                     /\ step' = step + StepIncrement(args)
                     /\ IF (step + 1) % args.print_step = 0
                          THEN /\ n_accum' = 0
                               /\ hist' = [hist EXCEPT !.train_updates = @ + 1,
                                                       !.dev_batches = @ + 1,
                                                       !.eval_updates = @ + 1,
                                                       !.reports = @ + 1,
                                                       !.since_report = 0]
                          ELSE /\ n_accum' = n_accum + 1
                               /\ hist' = [hist EXCEPT !.train_updates = @ + 1,
                                                       !.since_report = @ + 1]
    /\ UNCHANGED <<args, eval_sets, epoch, learning_rate, metric_dev_best, metric_dev,
                   not_improved_epoch, optimizer, lr_controller, checkpoints,
                   resources, stopped_by>>
    /\ UNCHANGED subVars

(***************************************************************************)
(* The loop body, lines 342-443: the epoch boundary.                       *)
(***************************************************************************)
\* Mutant: the loop is left only once the epoch counter is past num_epochs.
EpochTail_past(ep, a) ==
    IF ep > a.num_epochs
      THEN [pc |-> "finish", stopped_by |-> "max_epoch", epoch |-> ep]
      ELSE [pc |-> "loop", stopped_by |-> "none", epoch |-> ep + 1]

\* Lines 436-443: the max-epoch check and the epoch increment, as the new
\* values of pc, stopped_by and epoch.
EpochTail(ep, a) ==
    IF ep = a.num_epochs
      THEN [pc |-> "finish", stopped_by |-> "max_epoch", epoch |-> ep]
      ELSE [pc |-> "loop", stopped_by |-> "none", epoch |-> ep + 1]

\* Mutant: the early-stop test made before the counter is updated.
EarlyStop_stale(nie_before, nie_after, a) == nie_before = a.not_improved_patient_epoch

\* Line 418: not_improved_epoch == args.not_improved_patient_epoch
EarlyStop(nie_before, nie_after, a) == nie_after = a.not_improved_patient_epoch

\* Mutant: the counter is not reset on an improvement.
NextNotImproved_no_reset(improved, nie) == nie + 1

\* Lines 374 and 412: the non-improvement counter after an evaluation.
NextNotImproved(improved, nie) == IF improved THEN 0 ELSE nie + 1

\* Mutant: the best metric is overwritten by every evaluation.
NextBest_latest(m, best) == m

\* Lines 372-373: metric_dev_best after the dev set was evaluated with m.
NextBest(m, best) == IF m < best THEN m ELSE best

\* Mutant: the zero-based epoch of the data set is handed to the controller.
LoopDecay_zero_based(m) ==
    decay_lr(lr_controller, optimizer, learning_rate, epoch - 1, m, args)

\* Lines 378-382 and 406-410: the call of lr_controller.decay_lr, made in
\* both branches with the epoch and the dev metric of this evaluation.
LoopDecay(m) ==
    decay_lr(lr_controller, optimizer, learning_rate, epoch, m, args)

\* Lines 372-431: the state after the dev set was evaluated with metric m,
\* the loop over eval_sets ending with outcome aux.
Evaluated(m, aux) ==
    LET improved == m < metric_dev_best
        best1 == NextBest(m, metric_dev_best)
        nie1  == NextNotImproved(improved, not_improved_epoch)
        d     == LoopDecay(m)
        cps1  == IF improved
                   THEN save_checkpoint(checkpoints, epoch, step, d.learning_rate, best1)
                   ELSE checkpoints
        naux  == IF ~improved THEN 0
                 ELSE IF aux = "ok" THEN eval_sets
                 ELSE IF args.label_type = "wordpiece" THEN 0 ELSE 1
        early == EarlyStop(not_improved_epoch, nie1, args)
        tosgd == epoch = args.convert_to_sgd_epoch
        tail  == EpochTail(epoch, args)
        base  == [metric_dev_best |-> best1, not_improved_epoch |-> nie1,
                  learning_rate |-> d.learning_rate, lr_controller |-> d.ctrl,
                  checkpoints |-> cps1, aux_evals |-> naux,
                  optimizer |-> d.optimizer, sgd |-> 0,
                  pc |-> "raised", raised |-> aux, stopped_by |-> "none", epoch |-> epoch]
    IN  IF aux # "ok" THEN base
        ELSE IF early
          THEN [base EXCEPT !.pc = "finish", !.raised = "none", !.stopped_by = "early_stop"]
        ELSE [base EXCEPT !.pc = tail.pc, !.raised = "none",
                          !.stopped_by = tail.stopped_by, !.epoch = tail.epoch,
                          !.sgd = IF tosgd THEN 1 ELSE 0,
                          !.optimizer = IF tosgd
                                          THEN [name |-> "sgd", lr |-> args.learning_rate]
                                          ELSE d.optimizer]

\* Mutant: the evaluation starts one epoch early.
BeforeEvalStart_early(ep, a) == ep + 1 < a.eval_start_epoch

\* Line 349: epoch < args.eval_start_epoch
BeforeEvalStart(ep, a) == ep < a.eval_start_epoch

EpochBoundary ==
    /\ pc = "epoch"
    /\ IF BeforeEvalStart(epoch, args)
         THEN \* lines 349-352: checkpoint only
              LET tail == EpochTail(epoch, args)
              IN  /\ checkpoints' = save_checkpoint(checkpoints, epoch, step,
                                                    learning_rate, metric_dev_best)
                  /\ pc' = tail.pc
                  /\ stopped_by' = tail.stopped_by
                  /\ epoch' = tail.epoch
                  /\ UNCHANGED <<metric_dev, metric_dev_best, not_improved_epoch,
                                 learning_rate, lr_controller, optimizer, raised, hist>>
         ELSE IF DevEvaluator(args.label_type) = "ValueError"
           THEN \* line 370
                /\ raised' = "ValueError"
                /\ pc' = "raised"
                /\ UNCHANGED <<checkpoints, stopped_by, epoch, metric_dev, metric_dev_best,
                               not_improved_epoch, learning_rate, lr_controller,
                               optimizer, hist>>
           ELSE \E m \in Metrics : \E aux \in AuxOutcomes(m) :
                  LET r == Evaluated(m, aux)
                  IN  /\ metric_dev' = m
                      /\ metric_dev_best' = r.metric_dev_best
                      /\ not_improved_epoch' = r.not_improved_epoch
                      /\ learning_rate' = r.learning_rate
                      /\ lr_controller' = r.lr_controller
                      /\ optimizer' = r.optimizer
                      /\ checkpoints' = r.checkpoints
                      /\ raised' = r.raised
                      /\ pc' = r.pc
                      /\ stopped_by' = r.stopped_by
                      /\ epoch' = r.epoch
                      /\ hist' = [hist EXCEPT !.dev_evals = @ + 1,
                                              !.aux_evals = @ + r.aux_evals,
                                              !.sgd_switches = @ + r.sgd]
    /\ UNCHANGED <<args, train_set, eval_sets, step, is_new_epoch, n_accum, resources>>
    /\ UNCHANGED subVars

(***************************************************************************)
(* Lines 445-452: after the loop.                                          *)
(***************************************************************************)
TrainFinish ==
    /\ pc = "finish"
    /\ resources' = [tf_writer |-> "closed", pbar_epoch |-> "closed", pbar_all |-> "closed"]
    /\ pc' = "done"
    /\ UNCHANGED <<args, train_set, eval_sets, epoch, step, learning_rate,
                   metric_dev_best, metric_dev, not_improved_epoch, optimizer,
                   lr_controller, is_new_epoch, n_accum, checkpoints, raised,
                   stopped_by, hist>>
    /\ UNCHANGED subVars

(***************************************************************************)
(* The training scenario: train(args) is run on one configuration.         *)
(***************************************************************************)
TrainArgs ==
    [ngpus : 1..MaxGpus,
     print_step : 1..MaxPrintStep,
     num_epochs : 1..MaxEpochs,
     eval_start_epoch : 1..MaxEpochs,
     not_improved_patient_epoch : 0..MaxPatience,
     convert_to_sgd_epoch : {2},
     label_type : LabelTypes,
     corpus : {"timit"},
     eval_sets : 0..1,
     optimizer : {"adam"},
     learning_rate : {LrUnit},
     decay_type : {"patience"},
     decay_start_epoch : {2},
     decay_rate : {[num |-> 1, den |-> 2]},
     decay_patient_epoch : {1}]

InitTrain ==
    /\ SubIdle
    /\ pc = "start"
    /\ args \in TrainArgs
    /\ train_set \in {[epoch |-> 0, pos |-> 0, len |-> n] : n \in 1..MaxBatches}
    /\ eval_sets = 0
    /\ epoch = 0
    /\ step = 0
    /\ learning_rate = 0
    /\ metric_dev_best = 0
    /\ metric_dev = NoMetric
    /\ not_improved_epoch = 0
    /\ optimizer = NoOptimizer
    /\ lr_controller = NoController
    /\ is_new_epoch = FALSE
    /\ n_accum = 0
    /\ checkpoints = <<>>
    /\ resources = NoResources
    /\ raised = "none"
    /\ stopped_by = "none"
    /\ hist = NoHist

NextTrain ==
    \/ TrainSetup
    \/ TrainStep
    \/ EpochBoundary
    \/ TrainFinish

SpecTrain == InitTrain /\ [][NextTrain]_vars

\* The decay scenario: runs of train over the decay settings of the
\* controller and over eval_start_epoch, on one device with a report at
\* every update.
TrainArgsDecay ==
    [ngpus : {1},
     print_step : {1},
     num_epochs : 1..MaxEpochs,
     eval_start_epoch : 1..MaxEpochs,
     not_improved_patient_epoch : {MaxPatience, MaxEpochs},
     convert_to_sgd_epoch : {2},
     label_type : {"word"},
     corpus : {"timit"},
     eval_sets : {0},
     optimizer : {"adam"},
     learning_rate : {LrUnit},
     decay_type : {"patience"},
     decay_start_epoch : 1..MaxEpochs,
     decay_rate : {[num |-> 1, den |-> 2]},
     decay_patient_epoch : 1..MaxDecayPatience]

InitTrainDecay ==
    /\ SubIdle
    /\ pc = "start"
    /\ args \in TrainArgsDecay
    /\ train_set \in {[epoch |-> 0, pos |-> 0, len |-> n] : n \in 1..MaxBatches}
    /\ eval_sets = 0
    /\ epoch = 0
    /\ step = 0
    /\ learning_rate = 0
    /\ metric_dev_best = 0
    /\ metric_dev = NoMetric
    /\ not_improved_epoch = 0
    /\ optimizer = NoOptimizer
    /\ lr_controller = NoController
    /\ is_new_epoch = FALSE
    /\ n_accum = 0
    /\ checkpoints = <<>>
    /\ resources = NoResources
    /\ raised = "none"
    /\ stopped_by = "none"
    /\ hist = NoHist

SpecTrainDecay == InitTrainDecay /\ [][NextTrain]_vars

\* The report scenario: runs of train over the number of devices and over
\* print intervals up to MaxReportStep, with one label type and no
\* auxiliary sets.
TrainArgsReport ==
    [ngpus : 1..MaxGpus,
     print_step : 1..MaxReportStep,
     num_epochs : 1..MaxEpochs,
     eval_start_epoch : {1, MaxEpochs},
     not_improved_patient_epoch : {MaxPatience},
     convert_to_sgd_epoch : {2},
     label_type : {"word"},
     corpus : {"timit"},
     eval_sets : {0},
     optimizer : {"adam"},
     learning_rate : {LrUnit},
     decay_type : {"patience"},
     decay_start_epoch : {2},
     decay_rate : {[num |-> 1, den |-> 2]},
     decay_patient_epoch : {1}]

InitTrainReport ==
    /\ SubIdle
    /\ pc = "start"
    /\ args \in TrainArgsReport
    /\ train_set \in {[epoch |-> 0, pos |-> 0, len |-> n] : n \in 1..MaxBatches}
    /\ eval_sets = 0
    /\ epoch = 0
    /\ step = 0
    /\ learning_rate = 0
    /\ metric_dev_best = 0
    /\ metric_dev = NoMetric
    /\ not_improved_epoch = 0
    /\ optimizer = NoOptimizer
    /\ lr_controller = NoController
    /\ is_new_epoch = FALSE
    /\ n_accum = 0
    /\ checkpoints = <<>>
    /\ resources = NoResources
    /\ raised = "none"
    /\ stopped_by = "none"
    /\ hist = NoHist

SpecTrainReport == InitTrainReport /\ [][NextTrain]_vars

\* train runs as one sequential process: whenever a next statement of it can
\* be executed it is executed, so the run never stops short of the end of
\* train or of an exception.
SpecTrainFair == InitTrain /\ [][NextTrain]_vars /\ WF_vars(NextTrain)

(***************************************************************************)
(* The subsampler scenario: a subsampler is constructed from its           *)
(* arguments and forward is called once on a padded batch.                 *)
(***************************************************************************)
SubsamplingTypes == {"concat", "conv1d", "drop", "maxpool"}

SubArgs ==
    {[type |-> "conv1d", subsampling_factor |-> f, conv_kernel_size |-> k] :
        f \in 1..MaxFactor, k \in 1..MaxKernel}
    \cup
    {[type |-> ty, subsampling_factor |-> f, conv_kernel_size |-> 0] :
        ty \in SubsamplingTypes \ {"conv1d"}, f \in 1..MaxFactor}

InitSub ==
    /\ sub_pc = "new"
    /\ sub_args \in SubArgs
    /\ module = NoModule
    /\ \E B \in 1..MaxB, T \in 1..MaxT :
          /\ xlens \in [1..B -> 1..T]
          /\ xs = PaddedBatch(xlens, T)
    /\ ret = NoReturn
    /\ TrainIdle

NewConcatSubsampler ==
    /\ sub_pc = "new" /\ sub_args.type = "concat"
    /\ module' = ConcatSubsampler_init(sub_args.subsampling_factor)
    /\ sub_pc' = "built"
    /\ UNCHANGED <<sub_args, xs, xlens, ret>>
    /\ UNCHANGED trainVars

NewConv1dSubsampler ==
    /\ sub_pc = "new" /\ sub_args.type = "conv1d"
    /\ IF Conv1dKernelOk(sub_args.conv_kernel_size)
         THEN /\ module' = Conv1dSubsampler_init(sub_args.subsampling_factor,
                                                 sub_args.conv_kernel_size)
              /\ sub_pc' = "built"
              /\ ret' = ret
         ELSE /\ module' = module
              /\ sub_pc' = "done"
              /\ ret' = Raised("AssertionError")
    /\ UNCHANGED <<sub_args, xs, xlens>>
    /\ UNCHANGED trainVars

NewDropSubsampler ==
    /\ sub_pc = "new" /\ sub_args.type = "drop"
    /\ module' = DropSubsampler_init(sub_args.subsampling_factor)
    /\ sub_pc' = "built"
    /\ UNCHANGED <<sub_args, xs, xlens, ret>>
    /\ UNCHANGED trainVars

NewMaxpoolSubsampler ==
    /\ sub_pc = "new" /\ sub_args.type = "maxpool"
    /\ module' = MaxpoolSubsampler_init(sub_args.subsampling_factor)
    /\ sub_pc' = "built"
    /\ UNCHANGED <<sub_args, xs, xlens, ret>>
    /\ UNCHANGED trainVars

ForwardConcat ==
    /\ sub_pc = "built" /\ module.type = "concat"
    /\ ret' = ConcatSubsampler_forward(module, xs, xlens)
    /\ sub_pc' = "done"
    /\ UNCHANGED <<sub_args, module, xs, xlens>>
    /\ UNCHANGED trainVars

ForwardConv1d ==
    /\ sub_pc = "built" /\ module.type = "conv1d"
    /\ ret' = Conv1dSubsampler_forward(module, xs, xlens)
    /\ sub_pc' = "done"
    /\ UNCHANGED <<sub_args, module, xs, xlens>>
    /\ UNCHANGED trainVars

ForwardDrop ==
    /\ sub_pc = "built" /\ module.type = "drop"
    /\ ret' = DropSubsampler_forward(module, xs, xlens)
    /\ sub_pc' = "done"
    /\ UNCHANGED <<sub_args, module, xs, xlens>>
    /\ UNCHANGED trainVars

ForwardMaxpool ==
    /\ sub_pc = "built" /\ module.type = "maxpool"
    /\ ret' = MaxpoolSubsampler_forward(module, xs, xlens)
    /\ sub_pc' = "done"
    /\ UNCHANGED <<sub_args, module, xs, xlens>>
    /\ UNCHANGED trainVars

NextSub ==
    \/ NewConcatSubsampler
    \/ NewConv1dSubsampler
    \/ NewDropSubsampler
    \/ NewMaxpoolSubsampler
    \/ ForwardConcat
    \/ ForwardConv1d
    \/ ForwardDrop
    \/ ForwardMaxpool

SpecSub == InitSub /\ [][NextSub]_vars

(***************************************************************************)
(* Properties of the subsamplers.                                          *)
(***************************************************************************)
\* floor(L / f) and ceil(L / f) by their defining inequalities.
FloorOf(L, f) == CHOOSE n \in 0..L : n * f <= L /\ L < (n + 1) * f
CeilOf(L, f) == CHOOSE n \in 0..L : (n - 1) * f < L /\ L <= n * f

\* forward of a subsampler of type ty with factor >= 2 has returned.
ForwardReturned(ty) ==
    /\ sub_pc = "done"
    /\ module.type = ty
    /\ module.subsampling_factor >= 2
    /\ ret.raised = "no"

Samples == DOMAIN xlens

\* C1 (as stated): ConcatSubsampler.forward returns floor(L / f) for every
\* factor f >= 2 and every input length L >= 1.
C1_ConcatFloor ==
    ForwardReturned("concat") =>
        \A i \in Samples : ret.xlens[i] = FloorOf(xlens[i], module.subsampling_factor)

\* C1 (amended): ConcatSubsampler.forward returns floor(L / f) for every
\* factor f >= 2 and every input length L >= f, and 1 for every length L < f.
C1_ConcatFloorClamped ==
    ForwardReturned("concat") =>
        \A i \in Samples :
            /\ xlens[i] >= module.subsampling_factor =>
                  ret.xlens[i] = FloorOf(xlens[i], module.subsampling_factor)
            /\ xlens[i] < module.subsampling_factor => ret.xlens[i] = 1

\* C1 witness: factor 2, lengths 7 and 1 give 3 and 1.
C1_Witness ==
    /\ ForwardReturned("concat")
    /\ module.subsampling_factor = 2
    /\ xlens = <<7, 1>>
    /\ ret.xlens = <<3, 1>>

\* C2: DropSubsampler.forward returns max(1, ceil(L / f)) for every factor
\* f >= 2 and every per-sample input length L >= 1.
C2_DropCeil ==
    ForwardReturned("drop") =>
        \A i \in Samples :
            ret.xlens[i] = Max(1, CeilOf(xlens[i], module.subsampling_factor))

\* C2 witness: factor 3, lengths 1 and 4 give 1 and 2.
C2_Witness ==
    /\ ForwardReturned("drop")
    /\ module.subsampling_factor = 3
    /\ xlens = <<1, 4>>
    /\ ret.xlens = <<1, 2>>

\* C3: Conv1dSubsampler.forward and MaxpoolSubsampler.forward return
\* ceil(L / f) for every factor f >= 2 and every input length L >= 1.
C3_PoolCeil ==
    (ForwardReturned("conv1d") \/ ForwardReturned("maxpool")) =>
        \A i \in Samples : ret.xlens[i] = CeilOf(xlens[i], module.subsampling_factor)

\* C3 witness: the convolutional subsampler with factor 2 maps length 7 to 4.
C3_Witness ==
    /\ ForwardReturned("conv1d")
    /\ module.subsampling_factor = 2
    /\ xlens = <<7, 6>>
    /\ ret.xlens = <<4, 3>>

\* C4: with factor 1, forward of each of the four subsamplers returns the
\* input data and the input length vector unchanged.
C4_FactorOneIdentity ==
    (sub_pc = "done" /\ module.type \in SubsamplingTypes /\ module.subsampling_factor = 1) =>
        /\ ret.raised = "no"
        /\ ret.xs = xs
        /\ ret.xlens = xlens

\* C4 witness: a concatenation subsampler with factor 1 has returned a batch
\* of non-uniform lengths.
C4_Witness ==
    /\ sub_pc = "done"
    /\ module.type = "concat"
    /\ module.subsampling_factor = 1
    /\ xlens = <<3, 1>>
    /\ ret.xlens = <<3, 1>>

\* C5: for each subsampler, every factor f >= 1 and every input length
\* L >= 1, the returned length L' satisfies 1 <= L' <= L.
C5_LengthBounded ==
    (sub_pc = "done" /\ ret.raised = "no") =>
        \A i \in Samples : 1 <= ret.xlens[i] /\ ret.xlens[i] <= xlens[i]

\* C5 witness: a concatenation subsampler with factor 3 returns length 1 for
\* a sample of length 2.
C5_Witness ==
    /\ ForwardReturned("concat")
    /\ module.subsampling_factor = 3
    /\ \E i \in Samples : xlens[i] = 2 /\ ret.xlens[i] = 1

\* A frame computed from valid frames only / from at least one valid frame.
RECURSIVE AllValid(_)
AllValid(fr) ==
    IF fr.op = "input" THEN TRUE
    ELSE IF fr.op = "pad" THEN FALSE
    ELSE \A k \in DOMAIN fr.in : AllValid(fr.in[k])

\* An output step of the convolution is the one at its centre input step.
Centre(fr) == fr.in[(Len(fr.in) + 1) \div 2]

RECURSIVE SomeValid(_)
SomeValid(fr) ==
    IF fr.op = "input" THEN TRUE
    ELSE IF fr.op = "pad" THEN FALSE
    ELSE IF fr.op = "relu_conv" THEN SomeValid(Centre(fr))
    ELSE \E k \in DOMAIN fr.in : SomeValid(fr.in[k])

\* The number of output time steps the transform produces from the valid
\* frames of sample i: complete groups (concat), kept valid steps (drop),
\* pooling windows covering a valid step (conv1d, maxpool).
StructuralLen(i) ==
    IF module.type = "concat"
      THEN Cardinality({j \in DOMAIN ret.xs[i] : AllValid(ret.xs[i][j])})
      ELSE Cardinality({j \in DOMAIN ret.xs[i] : SomeValid(ret.xs[i][j])})

\* C6 (as stated): with factor f >= 2 the returned length of every sample
\* equals the number of output steps produced from its valid frames and
\* never exceeds the time dimension of the returned data.
C6_LengthMatchesData ==
    (\E ty \in SubsamplingTypes : ForwardReturned(ty)) =>
        \A i \in Samples :
            /\ ret.xlens[i] = StructuralLen(i)
            /\ ret.xlens[i] <= TimeDim(ret.xs)

\* C6 (amended): as stated, except that the concatenation subsampler returns
\* length 1 for a sample shorter than one group (L < f), whose valid frames
\* produce no complete group.
C6_LengthMatchesDataClamped ==
    (\E ty \in SubsamplingTypes : ForwardReturned(ty)) =>
        \A i \in Samples :
            /\ ret.xlens[i] =
                  IF module.type = "concat" /\ xlens[i] < module.subsampling_factor
                    THEN 1
                    ELSE StructuralLen(i)
            /\ ret.xlens[i] <= TimeDim(ret.xs)

\* C6 witness: concatenation with factor 3 on lengths 2 and 7 (time
\* dimension 7, not divisible by 3) returns lengths 1 and 2, the first sample
\* having no complete group.
C6_Witness ==
    /\ ForwardReturned("concat")
    /\ module.subsampling_factor = 3
    /\ xlens = <<2, 7>>
    /\ ret.xlens = <<1, 2>>
    /\ StructuralLen(1) = 0
    /\ StructuralLen(2) = 2
    /\ TimeDim(ret.xs) = 2

(***************************************************************************)
(* Properties of the training loop.                                        *)
(***************************************************************************)
KnownLabelTypes == {"word", "wordpiece", "char", "phone"}

\* The boundary of the current epoch evaluates the dev set and obtains a metric.
BoundaryEvaluates == epoch >= args.eval_start_epoch /\ args.label_type \in KnownLabelTypes

\* The loop is left in the step (by a break or by an exception).
Halts == pc' \in {"finish", "raised"}

\* C7 (as stated): at every epoch boundary the counter not_improved_epoch is
\* set to 0 if the epoch's dev metric is strictly lower than the best so
\* far, and is otherwise increased by exactly 1; no other event changes it.
C7_CounterAtEveryBoundary ==
    [][ /\ pc = "epoch" =>
             IF BoundaryEvaluates /\ metric_dev' < metric_dev_best
               THEN not_improved_epoch' = 0
               ELSE not_improved_epoch' = not_improved_epoch + 1
        /\ pc # "epoch" => not_improved_epoch' = not_improved_epoch ]_vars

\* C7 (amended): at every epoch boundary at which the dev set is evaluated
\* (epoch >= eval_start_epoch and a recognised label type) the counter is set
\* to 0 if the dev metric is strictly lower than the best so far, and is
\* otherwise increased by exactly 1; at any other epoch boundary and at any
\* other event it is unchanged.
C7_CounterAtEvaluatedBoundary ==
    [][ /\ (pc = "epoch" /\ BoundaryEvaluates) =>
             IF metric_dev' < metric_dev_best
               THEN not_improved_epoch' = 0
               ELSE not_improved_epoch' = not_improved_epoch + 1
        /\ ~(pc = "epoch" /\ BoundaryEvaluates) =>
             not_improved_epoch' = not_improved_epoch ]_vars

\* C7 witness: after three evaluations, the second of which did not improve
\* (the rate was decayed) and the third of which did, the counter is 0 again.
C7_Witness ==
    /\ hist.dev_evals = 3
    /\ metric_dev = 1
    /\ metric_dev_best = 1
    /\ learning_rate < LrUnit
    /\ not_improved_epoch = 0
    /\ raised = "none"

\* C8 (as stated): training halts at an epoch boundary exactly when the
\* counter equals not_improved_patient_epoch there, and never at a boundary
\* at which the dev metric has just improved.
C8_HaltsExactlyAtPatience ==
    [][ pc = "epoch" =>
          /\ Halts <=> not_improved_epoch' = args.not_improved_patient_epoch
          /\ (BoundaryEvaluates /\ metric_dev' < metric_dev_best) => ~Halts ]_vars

\* C8 (amended): the early-stop exit is taken exactly at an evaluated epoch
\* boundary at which no error is raised and the counter, as updated there,
\* equals not_improved_patient_epoch; for a patience of at least 1 the
\* counter stays below it while the loop runs, and the exit is never taken
\* where the metric has just improved.  Training otherwise halts only at the
\* boundary of epoch num_epochs or on an error raised at the boundary.
C8_EarlyStopAtPatience ==
    [][ /\ pc = "epoch" =>
             /\ stopped_by' = "early_stop" <=>
                   /\ BoundaryEvaluates
                   /\ raised' = "none"
                   /\ not_improved_epoch' = args.not_improved_patient_epoch
             /\ Halts <=> \/ stopped_by' = "early_stop"
                          \/ raised' # "none"
                          \/ epoch = args.num_epochs
             /\ ( /\ BoundaryEvaluates
                  /\ metric_dev' < metric_dev_best
                  /\ args.not_improved_patient_epoch >= 1 ) => stopped_by' # "early_stop"
        /\ pc # "epoch" => stopped_by' = stopped_by
        /\ (pc \in {"loop", "epoch"} /\ args.not_improved_patient_epoch >= 1) =>
              not_improved_epoch < args.not_improved_patient_epoch ]_vars

\* C8 witness: training has stopped early, before the last epoch, with the
\* counter equal to a patience of at least 1.
C8_Witness ==
    /\ pc = "done"
    /\ stopped_by = "early_stop"
    /\ args.not_improved_patient_epoch >= 1
    /\ not_improved_epoch = args.not_improved_patient_epoch
    /\ epoch < args.num_epochs

\* C9: for every ngpus >= 1 the step counter equals the number of training
\* updates made (it increases by exactly 1 per training-mode call of the
\* updater, and eval-mode calls do not change it).
C9_StepCountsUpdates ==
    (pc \in {"loop", "epoch", "finish", "done"}) => step = hist.train_updates

\* C10: for every print_step >= 1 and ngpus >= 1 a report occurs once every
\* print interval of training updates: the interval arithmetic never fails,
\* at most print_step - 1 updates are ever pending since the last report,
\* and the accumulators hold exactly the pending updates.
C10_ReportEveryInterval ==
    /\ raised # "ZeroDivisionError"
    /\ pc \in {"loop", "epoch", "finish", "done", "raised"} =>
          /\ hist.since_report <= hist.print_step - 1
          /\ n_accum = hist.since_report

\* The dev metric evaluated in this step improves on the best one.
Improves == metric_dev' < metric_dev_best

\* C11 as stated: at every epoch boundary whose epoch is at or past
\* eval_start_epoch a checkpoint is written, whether or not the dev metric
\* improved.
C11_CheckpointAtEveryEvaluatedBoundary ==
    [][ (pc = "epoch" /\ BoundaryEvaluates) =>
            Len(checkpoints') = Len(checkpoints) + 1 ]_vars

\* C11 amended: at an epoch boundary at or past eval_start_epoch exactly one
\* checkpoint is written when the dev metric improved, recording that epoch
\* and the step counter, and none when it did not; at a boundary before
\* eval_start_epoch one checkpoint is written.
C11_CheckpointOnImprovement ==
    [][ /\ (pc = "epoch" /\ BoundaryEvaluates /\ Improves) =>
              /\ Len(checkpoints') = Len(checkpoints) + 1
              /\ checkpoints'[Len(checkpoints')].epoch = epoch
              /\ checkpoints'[Len(checkpoints')].step = step
        /\ (pc = "epoch" /\ BoundaryEvaluates /\ ~Improves) =>
              checkpoints' = checkpoints
        /\ (pc = "epoch" /\ epoch < args.eval_start_epoch) =>
              Len(checkpoints') = Len(checkpoints) + 1
        /\ pc # "epoch" => checkpoints' = checkpoints ]_vars

\* C11 witness: two epochs were evaluated from the first one on, the second
\* without improvement, and only the first wrote a checkpoint.
C11_Witness ==
    /\ args.eval_start_epoch = 1
    /\ hist.dev_evals = 2
    /\ not_improved_epoch = 1
    /\ Len(checkpoints) = 1
    /\ checkpoints[1].epoch = 1

\* C12: for every label_type outside word, wordpiece, char and phone, train
\* raises its configuration error before any training update is made, any
\* checkpoint is written or any evaluation is run.
C12_UnknownLabelRejectedAtStart ==
    (pc # "start" /\ args.label_type \notin KnownLabelTypes) =>
        /\ hist.train_updates = 0
        /\ checkpoints = <<>>
        /\ hist.dev_evals = 0

\* C13: at every evaluated epoch where the dev metric improves, for every
\* recognised label type, every configured auxiliary evaluation set is
\* decoded and reported and the boundary goes on to the early-stop and
\* max-epoch checks without an error; the auxiliary results leave the best
\* metric and the non-improvement counter as the dev evaluation set them.
\* (The wordpiece evaluator is called without its wp_model argument at line
\* 394; a run in which that call itself fails is not held against the claim.)
C13_AuxiliarySetsReported ==
    [][ (/\ pc = "epoch" /\ BoundaryEvaluates /\ Improves
         /\ ~(args.label_type = "wordpiece" /\ raised' = "TypeError")) =>
            /\ hist'.aux_evals = hist.aux_evals + args.eval_sets
            /\ raised' = "none"
            /\ pc' \in {"loop", "finish"}
            /\ metric_dev_best' = metric_dev'
            /\ not_improved_epoch' = 0 ]_vars

\* C14: in every run in which the epoch counter passes convert_to_sgd_epoch
\* the optimizer was swapped to SGD exactly once, at the boundary of that
\* epoch, and it is never swapped a second time; this for every relation
\* between convert_to_sgd_epoch and eval_start_epoch.
C14_SwitchedOnceAtConvertEpoch ==
    pc # "start" =>
        /\ hist.sgd_switches <= 1
        /\ epoch > args.convert_to_sgd_epoch =>
              (hist.sgd_switches = 1 /\ optimizer.name = "sgd")

\* C15: for every num_epochs >= 1, with epoch boundaries arriving again and
\* again, training eventually ends; it ends no later than the boundary at
\* which the epoch counter equals num_epochs, and the epoch counter never
\* exceeds num_epochs.
C15_EndsByMaxEpoch ==
    /\ [](pc # "start" => epoch <= args.num_epochs)
    /\ [][ (pc = "epoch" /\ epoch = args.num_epochs) => Halts ]_vars
    /\ <>(pc \in {"done", "raised"})

\* C15 witness: a run of more than one epoch has ended at the boundary of
\* its last epoch by the max-epoch exit.
C15_Witness ==
    /\ pc = "done"
    /\ stopped_by = "max_epoch"
    /\ args.num_epochs >= 2
    /\ epoch = args.num_epochs

\* The controller allows a decay at this epoch: the epoch is at or past
\* decay_start_epoch and no decay was made in the last decay_patient_epoch
\* epochs.
DecayDue ==
    /\ epoch >= args.decay_start_epoch
    /\ \/ lr_controller.last_decay_epoch = 0
       \/ epoch - lr_controller.last_decay_epoch >= args.decay_patient_epoch

\* C16 as stated: for every eval_start_epoch, at every epoch boundary at
\* which no dev metric improves and a decay is due, the learning rate is
\* multiplied by decay_rate, and the rate never increases.
C16_DecayFromStartEpoch ==
    [][ /\ (pc = "epoch" /\ DecayDue /\ ~(BoundaryEvaluates /\ Improves)) =>
              learning_rate' = Decayed(learning_rate, args.decay_rate)
        /\ pc # "start" => learning_rate' <= learning_rate ]_vars

\* C16 amended: the learning rate is multiplied by decay_rate exactly at the
\* evaluated epoch boundaries (epoch >= eval_start_epoch) at which the dev
\* metric does not improve and a decay is due; at every other step of the
\* loop, the boundaries before eval_start_epoch included, it is unchanged;
\* it never increases; and with eval_start_epoch <= decay_start_epoch the
\* decay is made at every boundary from decay_start_epoch on at which no
\* dev metric improves and a decay is due.
C16_DecayAtEvaluatedBoundaries ==
    [][ /\ (pc = "epoch" /\ BoundaryEvaluates /\ ~Improves /\ DecayDue) =>
              /\ learning_rate' = Decayed(learning_rate, args.decay_rate)
              /\ lr_controller'.last_decay_epoch = epoch
        /\ (pc = "epoch" /\ ~(BoundaryEvaluates /\ ~Improves /\ DecayDue)) =>
              /\ learning_rate' = learning_rate
              /\ lr_controller'.last_decay_epoch = lr_controller.last_decay_epoch
        /\ pc \notin {"epoch", "start"} => learning_rate' = learning_rate
        /\ pc # "start" => learning_rate' <= learning_rate
        /\ (/\ pc = "epoch" /\ args.eval_start_epoch <= args.decay_start_epoch
            /\ DecayDue /\ ~(BoundaryEvaluates /\ Improves)) =>
              learning_rate' = Decayed(learning_rate, args.decay_rate) ]_vars

\* C16 witness: the scenario decay_start_epoch = 2, decay_rate = 1/2,
\* decay_patient_epoch = 1 with three evaluated epochs from epoch 1 on, the
\* second and third without improvement: the rate is lr0 / 4 after epoch 3.
C16_Witness ==
    /\ args.eval_start_epoch = 1
    /\ args.decay_start_epoch = 2
    /\ args.decay_patient_epoch = 1
    /\ hist.dev_evals = 3
    /\ epoch = 3
    /\ not_improved_epoch = 2
    /\ learning_rate * 4 = args.learning_rate

\* C17: the learning rate in effect is changed only by the controller's
\* decay rule: no other step of the loop, the switch to SGD included, sets
\* or resets the loop's tracked value or the optimizer's value, so the two
\* stay equal.
C17_RateChangedOnlyByDecay ==
    [][ pc # "start" =>
          /\ optimizer'.lr = learning_rate'
          /\ optimizer'.lr \in {optimizer.lr, Decayed(optimizer.lr, args.decay_rate)} ]_vars

\* C18: metric_dev_best is changed only at an evaluated epoch boundary,
\* where it becomes the smaller of its old value and the dev metric just
\* evaluated (so that, starting from 100, it is the minimum of 100 and of
\* all dev metrics so far and never increases); and every checkpoint
\* records the value current when it is written.
C18_BestIsRunningMinimum ==
    /\ [](pc = "start" \/ metric_dev_best <= 100)
    /\ [][ /\ (pc = "epoch" /\ BoundaryEvaluates) =>
                 /\ metric_dev_best' <= metric_dev_best
                 /\ metric_dev_best' <= metric_dev'
                 /\ metric_dev_best' \in {metric_dev_best, metric_dev'}
           /\ (pc = "epoch" /\ ~BoundaryEvaluates) => metric_dev_best' = metric_dev_best
           /\ pc \notin {"epoch", "start"} =>
                 (metric_dev_best' = metric_dev_best /\ metric_dev' = metric_dev)
           /\ pc = "start" => metric_dev_best' = 100
           /\ Len(checkpoints') > Len(checkpoints) =>
                 checkpoints'[Len(checkpoints')].metric_dev_best = metric_dev_best' ]_vars

\* C18 witness: three epochs were evaluated with metrics 2, 1, 2; the best
\* is 1 and the last checkpoint, written at the second epoch, records it.
C18_Witness ==
    /\ hist.dev_evals = 3
    /\ metric_dev = 2
    /\ metric_dev_best = 1
    /\ Len(checkpoints) = 2
    /\ checkpoints[1].metric_dev_best = 2
    /\ checkpoints[2].metric_dev_best = 1

\* C19: however the training loop ends, by early stop, at the last epoch or
\* by the error raised inside the loop for an unknown label type, the
\* tensorboard writer and the progress bars have been closed once train is
\* over; train returns on the two normal exits.
C19_ResourcesClosedAtEveryExit ==
    /\ (pc = "done" \/ (pc = "raised" /\ raised = "ValueError")) =>
          \A r \in DOMAIN resources : resources[r] = "closed"
    /\ pc = "done" => (raised = "none" /\ stopped_by \in {"early_stop", "max_epoch"})

\* module(xs, xlens): the forward of the module that was built.
forward(self, bxs, bxlens) ==
    CASE self.type = "concat"  -> ConcatSubsampler_forward(self, bxs, bxlens)
      [] self.type = "conv1d"  -> Conv1dSubsampler_forward(self, bxs, bxlens)
      [] self.type = "drop"    -> DropSubsampler_forward(self, bxs, bxlens)
      [] self.type = "maxpool" -> MaxpoolSubsampler_forward(self, bxs, bxlens)

\* Other batches holding a sample of length L at position j: the sample
\* alone under every padded time dimension, and the sample behind a first
\* sample of any length.
OtherBatches(L) ==
    {[lens |-> <<L>>, T |-> T2, j |-> 1] : T2 \in L..MaxT}
    \cup
    {[lens |-> <<m, L>>, T |-> MaxT, j |-> 2] : m \in 1..MaxT}

\* C20: the output length of sample i depends only on xlens[i] and on the
\* module: every other batch that holds a sample of the same length, with
\* whatever other samples, batch size and padded time dimension, gets the
\* same output length for it from the same module.
C20_LengthDependsOnOwnLengthOnly ==
    (sub_pc = "done" /\ module # NoModule /\ ret.raised = "no") =>
        \A i \in Samples : \A o \in OtherBatches(xlens[i]) :
            LET r == forward(module, PaddedBatch(o.lens, o.T), o.lens)
            IN  r.raised = "no" => r.xlens[o.j] = ret.xlens[i]

\* C20 witness: a module of factor above 1 returned different lengths for
\* the two samples of a batch that is padded beyond its longest sample.
C20_Witness ==
    /\ sub_pc = "done" /\ module # NoModule /\ ret.raised = "no"
    /\ module.subsampling_factor > 1
    /\ Len(xlens) = 2
    /\ xlens[1] < xlens[2]
    /\ xlens[2] < TimeDim(xs)
    /\ ret.xlens[1] < ret.xlens[2]

\* C21: constructing a Conv1dSubsampler with an even conv_kernel_size fails
\* with an error for every subsampling factor, factor 1 included, and
\* leaves no subsampler object; with an odd kernel size it succeeds.
C21_EvenKernelRejected ==
    (sub_args.type = "conv1d" /\ sub_pc # "new") =>
        IF sub_args.conv_kernel_size % 2 = 0
          THEN /\ sub_pc = "done"
               /\ module = NoModule
               /\ ret.raised = "AssertionError"
          ELSE /\ module # NoModule
               /\ module.type = "conv1d"
               /\ module.subsampling_factor = sub_args.subsampling_factor
               /\ ret.raised # "AssertionError"

\* C21 witness: the construction with an even kernel size and factor 1,
\* where no convolution would be built, has failed.
C21_Witness ==
    /\ sub_args.type = "conv1d"
    /\ sub_args.subsampling_factor = 1
    /\ sub_args.conv_kernel_size % 2 = 0
    /\ sub_pc = "done"
    /\ module = NoModule
    /\ ret.raised = "AssertionError"

\* C22: at every report, for every ngpus >= 1, the divisor of the training
\* averages (args.print_step) equals the number of training updates
\* accumulated since the previous report, or since the start for the first
\* report, and the accumulators are zero right after the report.
C22_DivisorCountsAccumulatedUpdates ==
    [][ hist'.reports = hist.reports + 1 =>
          /\ args.print_step = hist.since_report + 1
          /\ args.print_step = n_accum + 1
          /\ n_accum' = 0 ]_vars

\* C23: at every epoch boundary whose epoch precedes eval_start_epoch
\* exactly one checkpoint is written, holding the epoch, the step counter,
\* the learning rate and the best metric as they are; no evaluator is
\* called; the best metric, the non-improvement counter, the learning rate
\* and the optimizer are unchanged; and early stop does not fire: the loop
\* goes on, or ends by the max-epoch exit.
C23_PreEvaluationBoundary ==
    [][ (pc = "epoch" /\ epoch < args.eval_start_epoch) =>
          /\ Len(checkpoints') = Len(checkpoints) + 1
          /\ checkpoints'[Len(checkpoints')] =
                [epoch |-> epoch, step |-> step, learning_rate |-> learning_rate,
                 metric_dev_best |-> metric_dev_best]
          /\ hist'.dev_evals = hist.dev_evals
          /\ hist'.aux_evals = hist.aux_evals
          /\ metric_dev' = metric_dev
          /\ metric_dev_best' = metric_dev_best
          /\ not_improved_epoch' = not_improved_epoch
          /\ learning_rate' = learning_rate
          /\ optimizer' = optimizer
          /\ lr_controller' = lr_controller
          /\ raised' = "none"
          /\ stopped_by' # "early_stop"
          /\ \/ pc' = "loop" /\ epoch' = epoch + 1
             \/ pc' = "finish" /\ epoch = args.num_epochs /\ stopped_by' = "max_epoch" ]_vars

\* C23 witness: two boundaries before eval_start_epoch have passed: two
\* checkpoints with the initial best metric and rate, and no evaluation.
C23_Witness ==
    /\ pc = "loop"
    /\ epoch = 3
    /\ args.eval_start_epoch = 3
    /\ Len(checkpoints) = 2
    /\ checkpoints[2].epoch = 2
    /\ checkpoints[2].metric_dev_best = 100
    /\ hist.dev_evals = 0
    /\ not_improved_epoch = 0
    /\ learning_rate = args.learning_rate

====
